---------------------------- MODULE Spec2Model ----------------------------
(***************************************************************************)
(* The expression calculator of compilers_are_fun: src/compiler.py (parser *)
(* with balance-checked Paren.match, LLVM code generation) and             *)
(* src/parser.py (the parser alone, Paren.match without the balance        *)
(* check).                                                                 *)
(*                                                                         *)
(* A Python string is a sequence of one-character strings.  A Python float *)
(* is the exact decimal <<n, k>> = n / 10^k in lowest form (k minimal).    *)
(* The value a matcher or parse_expr produces is a record with a field     *)
(* "kind": an Op object ("Add", "Mul", "Constant"), None ("None"), or a    *)
(* raised exception ("raise").                                             *)
(***************************************************************************)
EXTENDS Integers, Sequences, FiniteSets, TLC

VARIABLES inp, pc, file, expr, tree, block, text, again,
          targets, idx, paren, stack, ret

vars == <<inp, pc, file, expr, tree, block, text, again,
          targets, idx, paren, stack, ret>>

-----------------------------------------------------------------------------
(* Bounds of the model. *)

\* longest string drawn over the whole alphabet
MaxLen == 5

\* longest well-formed expression drawn from the grammar
MaxValidLen == 7

\* longest string run through the call-by-call parser
MaxStepLen == 4

-----------------------------------------------------------------------------
(* Characters. *)

Digits == {"0", "1", "2", "3", "4", "5", "6", "7", "8", "9"}

DigitVal(c) ==
    CASE c = "0" -> 0 [] c = "1" -> 1 [] c = "2" -> 2 [] c = "3" -> 3
      [] c = "4" -> 4 [] c = "5" -> 5 [] c = "6" -> 6 [] c = "7" -> 7
      [] c = "8" -> 8 [] c = "9" -> 9

DigitChar(d) == <<"0", "1", "2", "3", "4", "5", "6", "7", "8", "9">>[d + 1]

Whitespace == {" "}

\* the characters the exhaustive inputs are drawn from
Alphabet == {"1", ".", "+", "*", "(", ")"}

\* the digits of the grammar-generated expressions
ValidDigits == {"1", "2"}

-----------------------------------------------------------------------------
(* Values. *)

None == [kind |-> "None"]

ValueError(e) == [kind |-> "raise", exc |-> "ValueError", arg |-> e]

IndexError == [kind |-> "raise", exc |-> "IndexError", arg |-> <<>>]

IsRaise(v) == v.kind = "raise"

IsOp(v) == v.kind \in {"Add", "Mul", "Constant"}

Add(l, r) == [kind |-> "Add", l_op |-> l, r_op |-> r]

Mul(l, r) == [kind |-> "Mul", l_op |-> l, r_op |-> r]

Constant(v) == [kind |-> "Constant", val |-> v]

RECURSIVE Pow10(_)
Pow10(k) == IF k = 0 THEN 1 ELSE 10 * Pow10(k - 1)

\* n / 10^k in lowest form
RECURSIVE Norm(_, _)
Norm(n, k) == IF k > 0 /\ n % 10 = 0 THEN Norm(n \div 10, k - 1) ELSE <<n, k>>

-----------------------------------------------------------------------------
(* float(expr), for strings over the model's characters: an optional sign  *)
(* '+', then digits with at most one '.', at least one digit.              *)

RECURSIVE DigitsValue(_, _, _)
DigitsValue(s, i, acc) ==
    IF i > Len(s) THEN acc
    ELSE IF s[i] = "." THEN DigitsValue(s, i + 1, acc)
    ELSE DigitsValue(s, i + 1, 10 * acc + DigitVal(s[i]))

RECURSIVE DotPos(_, _)
DotPos(s, i) ==
    IF i > Len(s) THEN 0 ELSE IF s[i] = "." THEN i ELSE DotPos(s, i + 1)

IsNumeral(s) ==
    /\ \A i \in 1..Len(s) : s[i] \in Digits \cup {"."}
    /\ \E i \in 1..Len(s) : s[i] \in Digits
    /\ \A i, j \in 1..Len(s) : (s[i] = "." /\ s[j] = ".") => i = j

NumeralValue(s) ==
    LET d == DotPos(s, 1)
    IN  Norm(DigitsValue(s, 1, 0), IF d = 0 THEN 0 ELSE Len(s) - d)

\* the float, or None where Python raises ValueError
float(s) ==
    LET body == IF Len(s) > 0 /\ s[1] = "+" THEN Tail(s) ELSE s
    IN  IF IsNumeral(body) THEN Constant(NumeralValue(body)) ELSE None

-----------------------------------------------------------------------------
(* naked_symbol_search: 0-based index of the first target seen while       *)
(* paren_count is zero, -1 if there is none.                               *)

RECURSIVE SearchFrom(_, _, _, _)
SearchFrom(e, tgts, i, paren_count) ==
    IF i > Len(e) THEN -1
    ELSE IF e[i] = "(" THEN SearchFrom(e, tgts, i + 1, paren_count + 1)
    ELSE IF e[i] = ")" THEN SearchFrom(e, tgts, i + 1, paren_count - 1)
    ELSE IF e[i] \in tgts /\ paren_count = 0 THEN i - 1
    ELSE SearchFrom(e, tgts, i + 1, paren_count)

\* mutant: the loop without its break, which leaves the last naked target
RECURSIVE SearchLastFrom(_, _, _, _, _)
SearchLastFrom(e, tgts, i, paren_count, split_idx) ==
    IF i > Len(e) THEN split_idx
    ELSE IF e[i] = "("
    THEN SearchLastFrom(e, tgts, i + 1, paren_count + 1, split_idx)
    ELSE IF e[i] = ")"
    THEN SearchLastFrom(e, tgts, i + 1, paren_count - 1, split_idx)
    ELSE IF e[i] \in tgts /\ paren_count = 0
    THEN SearchLastFrom(e, tgts, i + 1, paren_count, i - 1)
    ELSE SearchLastFrom(e, tgts, i + 1, paren_count, split_idx)

naked_symbol_search_NoBreak(e, tgts) == SearchLastFrom(e, tgts, 1, 0, -1)

naked_symbol_search(e, tgts) == SearchFrom(e, tgts, 1, 0)

\* mutant: e[:i + 1], the operator left in the left operand
l_expr_WithOperator(e, i) == SubSeq(e, 1, i + 1)

\* e[:i] and e[i + 1:] for a 0-based index i
l_expr(e, i) == SubSeq(e, 1, i)

r_expr(e, i) == SubSeq(e, i + 2, Len(e))

\* e[1:-1]
Interior(e) == SubSeq(e, 2, Len(e) - 1)

\* the count loop of compiler.py's Paren.match, with its break
RECURSIVE CountFrom(_, _, _)
CountFrom(s, i, count) ==
    IF i > Len(s) THEN count
    ELSE LET c == IF s[i] = "(" THEN count + 1
                   ELSE IF s[i] = ")" THEN count - 1 ELSE count
         IN  IF c < 0 THEN c ELSE CountFrom(s, i + 1, c)

\* mutant: the last character is not looked at
ParenGuard_FirstOnly(f, e) ==
    /\ e[1] = "("
    /\ f = "compiler.py" => CountFrom(Interior(e), 1, 0) = 0

\* mutant: compiler.py without its count loop, as parser.py is
ParenGuard_NoCount(f, e) ==
    /\ e[1] = "("
    /\ e[Len(e)] = ")"

\* Paren.match's test before it recurses, per source file
ParenGuard(f, e) ==
    /\ e[1] = "("
    /\ e[Len(e)] = ")"
    /\ f = "compiler.py" => CountFrom(Interior(e), 1, 0) = 0

-----------------------------------------------------------------------------
(* The matchers and parse_expr.  f names the source file: the two files    *)
(* differ in Paren.match only.                                             *)

RECURSIVE parse_expr(_, _)

\* cls(parse_expr(l_expr), parse_expr(r_expr)): left first, an exception
\* of the left call leaves before the right call is made
BinaryMatch(f, e, sym, kind) ==
    LET i == naked_symbol_search(e, {sym})
    IN  IF i = -1 THEN None
        ELSE LET l == parse_expr(f, l_expr(e, i))
             IN  IF IsRaise(l) THEN l
                 ELSE LET r == parse_expr(f, r_expr(e, i))
                      IN  IF IsRaise(r) THEN r
                          ELSE [kind |-> kind, l_op |-> l, r_op |-> r]

Add_match(f, e) == BinaryMatch(f, e, "+", "Add")

Mul_match(f, e) == BinaryMatch(f, e, "*", "Mul")

\* expr[0] on the empty string raises IndexError
Paren_match(f, e) ==
    IF Len(e) = 0 THEN IndexError
    ELSE IF ParenGuard(f, e) THEN parse_expr(f, Interior(e))
    ELSE None

Constant_match(e) == float(e)

\* mutant: the `or` chain with Mul.match before Add.match
parse_expr_MulFirst(f, e) ==
    LET add_op == Add_match(f, e)
    IN  IF IsRaise(add_op) THEN add_op
        ELSE LET mul_op == Mul_match(f, e)
        IN  IF IsRaise(mul_op) THEN mul_op
        ELSE LET paren_op == Paren_match(f, e)
        IN  IF IsRaise(paren_op) THEN paren_op
        ELSE LET constant_op == Constant_match(e)
                 op == IF mul_op # None THEN mul_op
                       ELSE IF add_op # None THEN add_op
                       ELSE IF paren_op # None THEN paren_op
                       ELSE constant_op
        IN  IF op = None THEN ValueError(e) ELSE op

\* The four assignments call every matcher, so an exception of any of
\* them leaves parse_expr; the matchers are pure, so the calls of the
\* `or` chain return what the assignments got.
parse_expr(f, e) ==
    LET add_op == Add_match(f, e)
    IN  IF IsRaise(add_op) THEN add_op
        ELSE LET mul_op == Mul_match(f, e)
        IN  IF IsRaise(mul_op) THEN mul_op
        ELSE LET paren_op == Paren_match(f, e)
        IN  IF IsRaise(paren_op) THEN paren_op
        ELSE LET constant_op == Constant_match(e)
                 op == IF add_op # None THEN add_op
                       ELSE IF mul_op # None THEN mul_op
                       ELSE IF paren_op # None THEN paren_op
                       ELSE constant_op
        IN  IF op = None THEN ValueError(e) ELSE op

\* re.sub('\s+', '', inp)
cleanup_input(s) == SelectSeq(s, LAMBDA c : c \notin Whitespace)

-----------------------------------------------------------------------------
(* __str__: str(float) and the 'Add(%s, %s)' / 'Mul(%s, %s)' formats.       *)

RECURSIVE NatStr(_)
NatStr(n) ==
    IF n < 10 THEN <<DigitChar(n)>>
    ELSE Append(NatStr(n \div 10), DigitChar(n % 10))

RECURSIVE Zeros(_)
Zeros(n) == IF n <= 0 THEN <<>> ELSE <<"0">> \o Zeros(n - 1)

\* mutant: '%.1f' cut after the first fractional digit
float_str_OneDigit(v) ==
    LET whole == v[1] \div Pow10(v[2])
        frac == IF v[2] = 0 THEN 0
                ELSE (v[1] \div Pow10(v[2] - 1)) % 10
    IN  NatStr(whole) \o <<".", DigitChar(frac)>>

\* repr of the float n / 10^k: positional when the decimal exponent x is
\* in -4..15, else d[.ddd]e-XX or d[.ddd]e+XX
float_str(v) ==
    LET n == v[1]
        k == v[2]
        D == NatStr(n)
        x == Len(D) - 1 - k
        mant == IF Len(D) = 1 THEN D ELSE <<D[1], ".">> \o Tail(D)
        ex == IF x < 0 THEN -x ELSE x
        exd == IF ex < 10 THEN <<"0">> \o NatStr(ex) ELSE NatStr(ex)
    IN  IF n = 0 THEN <<"0", ".", "0">>
        ELSE IF x < -4 THEN mant \o <<"e", "-">> \o exd
        ELSE IF x >= 16 THEN mant \o <<"e", "+">> \o exd
        ELSE IF k = 0 THEN D \o <<".", "0">>
        ELSE IF Len(D) > k
             THEN SubSeq(D, 1, Len(D) - k) \o <<".">>
                  \o SubSeq(D, Len(D) - k + 1, Len(D))
        ELSE <<"0", ".">> \o Zeros(k - Len(D)) \o D

RECURSIVE Op_str(_)
Op_str(op) ==
    IF op.kind = "Constant" THEN float_str(op.val)
    ELSE (IF op.kind = "Add" THEN <<"A", "d", "d">> ELSE <<"M", "u", "l">>)
         \o <<"(">> \o Op_str(op.l_op) \o <<",", " ">> \o Op_str(op.r_op)
         \o <<")">>

-----------------------------------------------------------------------------
(* codegen.  The basic block is the sequence of instructions the IRBuilder *)
(* has appended; a value is a float constant or the result of the          *)
(* instruction at a position of the block.                                 *)

ConstValue(v) == [kind |-> "const", val |-> v]

InstrValue(i) == [kind |-> "instr", at |-> i]

\* irb.fadd / irb.fmul: append the instruction, return its value
irb_binop(opname, lval, rval, blk) ==
    [val |-> InstrValue(Len(blk) + 1),
     blk |-> Append(blk, [opname |-> opname, lhs |-> lval, rhs |-> rval])]

\* irb.ret
irb_ret(g) == Append(g.blk, [opname |-> "ret", lhs |-> g.val, rhs |-> g.val])

\* mutant: the right operand generated before the left one
RECURSIVE codegen_RightFirst(_, _)
codegen_RightFirst(op, blk) ==
    IF op.kind = "Constant" THEN [val |-> ConstValue(op.val), blk |-> blk]
    ELSE LET r == codegen_RightFirst(op.r_op, blk)
             l == codegen_RightFirst(op.l_op, r.blk)
         IN  irb_binop(IF op.kind = "Add" THEN "fadd" ELSE "fmul",
                       l.val, r.val, l.blk)

RECURSIVE codegen(_, _)
codegen(op, blk) ==
    IF op.kind = "Constant" THEN [val |-> ConstValue(op.val), blk |-> blk]
    ELSE LET l == codegen(op.l_op, blk)
             r == codegen(op.r_op, l.blk)
         IN  irb_binop(IF op.kind = "Add" THEN "fadd" ELSE "fmul",
                       l.val, r.val, r.blk)

-----------------------------------------------------------------------------
(* The inputs. *)

RECURSIVE StringsOfLen(_, _)
StringsOfLen(A, n) ==
    IF n = 0 THEN {<<>>}
    ELSE {Append(s, c) : s \in StringsOfLen(A, n - 1), c \in A}

StringsUpTo(A, n) == UNION {StringsOfLen(A, m) : m \in 0..n}

AllStrings == StringsUpTo(Alphabet, MaxLen)

\* The expressions of the grammar  E ::= T | T + E,  T ::= A | A * T,
\* A ::= numeral | ( E ),  by length: tab[n] holds those of length n.
GrammarStep(tab) ==
    LET n == Len(tab) + 1
        A == StringsOfLen(ValidDigits, n)
             \cup (IF n >= 3
                   THEN {<<"(">> \o e \o <<")">> : e \in tab[n - 2].E}
                   ELSE {})
        T == A \cup UNION {{a \o <<"*">> \o t :
                               a \in tab[i].A, t \in tab[n - 1 - i].T} :
                           i \in 1..(n - 2)}
        E == T \cup UNION {{t \o <<"+">> \o e :
                               t \in tab[i].T, e \in tab[n - 1 - i].E} :
                           i \in 1..(n - 2)}
    IN  Append(tab, [A |-> A, T |-> T, E |-> E])

RECURSIVE Grammar(_)
Grammar(n) == IF n = 0 THEN <<>> ELSE GrammarStep(Grammar(n - 1))

ValidExprs ==
    LET tab == Grammar(MaxValidLen)
    IN  UNION {tab[n].E : n \in 1..MaxValidLen}

Examples ==
    { <<"1", "+", "2", "*", "3">>,
      <<"1", "+", "2", "+", "3">>,
      <<"(", "1", "+", "2", ")", "*", "3">>,
      <<"(", "1", "+", "2", ")", "*", "(", "3", "+", "4", ")">>,
      <<" ", " ", "3", ".", "5", " ">>,
      <<"1", " ", "+", " ", "2">>,
      <<"1", "+">>,
      <<"(", "1", "+", "2">> }

Inputs == AllStrings \cup ValidExprs \cup Examples

-----------------------------------------------------------------------------
(* The program. *)

Init ==
    /\ inp \in Inputs
    /\ pc = "start"
    /\ file = "none"
    /\ expr = <<>>
    /\ tree = None
    /\ block = <<>>
    /\ text = <<>>
    /\ again = None
    /\ targets = {}
    /\ idx = -1
    /\ paren = None
    /\ stack = <<>>
    /\ ret = None

\* main of compiler.py: clean up, parse, generate the code of the whole
\* tree and return its value; an exception of parse_expr leaves main
Main ==
    /\ pc = "start"
    /\ file' = "compiler.py"
    /\ expr' = cleanup_input(inp)
    /\ tree' = parse_expr("compiler.py", expr')
    /\ IF IsRaise(tree')
       THEN /\ pc' = "raised"
            /\ block' = block
       ELSE /\ pc' = "compiled"
            /\ block' = irb_ret(codegen(tree', <<>>))
    /\ UNCHANGED <<inp, text, again, targets, idx, paren, stack, ret>>

\* parse_expr of parser.py on a cleaned input
Parse ==
    /\ pc = "start"
    /\ file' = "parser.py"
    /\ expr' = cleanup_input(inp)
    /\ tree' = parse_expr("parser.py", expr')
    /\ pc' = IF IsRaise(tree') THEN "raised" ELSE "parsed"
    /\ UNCHANGED <<inp, block, text, again, targets, idx, paren, stack, ret>>

\* the tree pretty-printed, cleaned up and parsed again
Reparse ==
    /\ pc \in {"compiled", "parsed"}
    /\ text' = cleanup_input(Op_str(tree))
    /\ again' = parse_expr(file, text')
    /\ pc' = "reparsed"
    /\ UNCHANGED <<inp, file, expr, tree, block, targets, idx, paren,
                   stack, ret>>

\* one call of naked_symbol_search, as Add.match and Mul.match make it
Search(tgts) ==
    /\ pc = "start"
    /\ expr' = cleanup_input(inp)
    /\ targets' = tgts
    /\ idx' = naked_symbol_search(expr', tgts)
    /\ pc' = "searched"
    /\ UNCHANGED <<inp, file, tree, block, text, again, paren, stack, ret>>

\* one call of Paren.match of either file
CallParen(f) ==
    /\ pc = "start"
    /\ file' = f
    /\ expr' = cleanup_input(inp)
    /\ paren' = Paren_match(f, expr')
    /\ pc' = "paren"
    /\ UNCHANGED <<inp, tree, block, text, again, targets, idx, stack, ret>>

Next ==
    \/ Main
    \/ Parse
    \/ Reparse
    \/ \E tgts \in {{"+"}, {"*"}} : Search(tgts)
    \/ \E f \in {"compiler.py", "parser.py"} : CallParen(f)

Spec == Init /\ [][Next]_vars

-----------------------------------------------------------------------------
(* parse_expr call by call.  The stack holds one frame per active call of  *)
(* parse_expr, the innermost last.  A frame is at one of the eight matcher *)
(* calls of the body, in order, or at the check that ends it; inside       *)
(* Add.match, Mul.match or Paren.match it is entering the matcher or       *)
(* waiting for a recursive call to return.  An exception unwinds the stack *)
(* frame by frame: no frame catches it.                                    *)

Frame(e) ==
    [expr |-> e, at |-> "add_op", sub |-> "enter", idx |-> -1, l |-> None,
     add_op |-> None, mul_op |-> None, paren_op |-> None,
     constant_op |-> None, op |-> None]

AddSites == {"add_op", "or_add"}

MulSites == {"mul_op", "or_mul"}

ParenSites == {"paren_op", "or_paren"}

ConstantSites == {"constant_op", "or_constant"}

\* the frame after its current matcher call has returned v: the four
\* assignments go on whatever v is, the `or` chain stops at the first
\* result that is not None
MatcherReturns(fr, v) ==
    LET g == [fr EXCEPT !.sub = "enter", !.idx = -1, !.l = None]
    IN  CASE fr.at = "add_op" -> [g EXCEPT !.add_op = v, !.at = "mul_op"]
          [] fr.at = "mul_op" -> [g EXCEPT !.mul_op = v, !.at = "paren_op"]
          [] fr.at = "paren_op" ->
                 [g EXCEPT !.paren_op = v, !.at = "constant_op"]
          [] fr.at = "constant_op" ->
                 [g EXCEPT !.constant_op = v, !.at = "or_add"]
          [] fr.at = "or_add" ->
                 IF v # None THEN [g EXCEPT !.op = v, !.at = "check"]
                 ELSE [g EXCEPT !.at = "or_mul"]
          [] fr.at = "or_mul" ->
                 IF v # None THEN [g EXCEPT !.op = v, !.at = "check"]
                 ELSE [g EXCEPT !.at = "or_paren"]
          [] fr.at = "or_paren" ->
                 IF v # None THEN [g EXCEPT !.op = v, !.at = "check"]
                 ELSE [g EXCEPT !.at = "or_constant"]
          [] fr.at = "or_constant" -> [g EXCEPT !.op = v, !.at = "check"]

Top == stack[Len(stack)]

SetTop(fr) == [stack EXCEPT ![Len(stack)] = fr]

StepInputs ==
    StringsUpTo(Alphabet, MaxStepLen)
    \cup { <<"1", "+", "2", "*", "3">>,
           <<"(", "1", "+", "2", ")", "*", "3">>,
           <<"(", "1", ")", "+", "(", "2", ")">>,
           <<"(", "(", "1", ")", ")">> }

InitStep ==
    /\ inp \in StepInputs
    /\ pc = "start"
    /\ file \in {"compiler.py", "parser.py"}
    /\ expr = <<>>
    /\ tree = None
    /\ block = <<>>
    /\ text = <<>>
    /\ again = None
    /\ targets = {}
    /\ idx = -1
    /\ paren = None
    /\ stack = <<>>
    /\ ret = None

\* the outermost call parse_expr(expr)
CallStep ==
    /\ pc = "start"
    /\ expr' = cleanup_input(inp)
    /\ stack' = <<Frame(expr')>>
    /\ pc' = "running"
    /\ UNCHANGED <<inp, file, tree, block, text, again, targets, idx, paren,
                   ret>>

\* Add.match or Mul.match up to its first recursive call
BinaryStep(sites, sym) ==
    /\ pc = "running"
    /\ Top.at \in sites
    /\ Top.sub = "enter"
    /\ LET i == naked_symbol_search(Top.expr, {sym})
       IN  stack' = IF i = -1 THEN SetTop(MatcherReturns(Top, None))
                    ELSE Append(SetTop([Top EXCEPT !.sub = "left",
                                                   !.idx = i]),
                                Frame(l_expr(Top.expr, i)))
    /\ UNCHANGED <<inp, pc, file, expr, tree, block, text, again, targets,
                   idx, paren, ret>>

AddMatchStep == BinaryStep(AddSites, "+")

MulMatchStep == BinaryStep(MulSites, "*")

\* Paren.match up to its recursive call; expr[0] raises on the empty string
ParenMatchStep ==
    /\ pc = "running"
    /\ Top.at \in ParenSites
    /\ Top.sub = "enter"
    /\ IF Len(Top.expr) = 0
       THEN /\ pc' = "raising"
            /\ ret' = IndexError
            /\ stack' = stack
       ELSE /\ pc' = pc
            /\ ret' = ret
            /\ stack' = IF ParenGuard(file, Top.expr)
                        THEN Append(SetTop([Top EXCEPT !.sub = "inner"]),
                                    Frame(Interior(Top.expr)))
                        ELSE SetTop(MatcherReturns(Top, None))
    /\ UNCHANGED <<inp, file, expr, tree, block, text, again, targets, idx,
                   paren>>

ConstantMatchStep ==
    /\ pc = "running"
    /\ Top.at \in ConstantSites
    /\ stack' = SetTop(MatcherReturns(Top, Constant_match(Top.expr)))
    /\ UNCHANGED <<inp, pc, file, expr, tree, block, text, again, targets,
                   idx, paren, ret>>

\* the caller's frame, and the call it makes next if any, once the call
\* it waits for has returned v
Resume(fr, v) ==
    IF fr.sub = "left"
    THEN <<[fr EXCEPT !.sub = "right", !.l = v],
           Frame(r_expr(fr.expr, fr.idx))>>
    ELSE IF fr.sub = "right"
    THEN <<MatcherReturns(fr, [kind |-> IF fr.at \in AddSites THEN "Add"
                                        ELSE "Mul",
                               l_op |-> fr.l, r_op |-> v])>>
    ELSE <<MatcherReturns(fr, v)>>

\* return op
ReturnStep ==
    /\ pc = "running"
    /\ Top.at = "check"
    /\ Top.op # None
    /\ ret' = Top.op
    /\ IF Len(stack) = 1
       THEN /\ stack' = <<>>
            /\ tree' = Top.op
            /\ pc' = "done"
       ELSE /\ stack' = SubSeq(stack, 1, Len(stack) - 2)
                        \o Resume(stack[Len(stack) - 1], Top.op)
            /\ tree' = tree
            /\ pc' = pc
    /\ UNCHANGED <<inp, file, expr, block, text, again, targets, idx, paren>>

\* raise ValueError('Could not parse expr: "%s"' % expr)
RaiseStep ==
    /\ pc = "running"
    /\ Top.at = "check"
    /\ Top.op = None
    /\ ret' = ValueError(Top.expr)
    /\ pc' = "raising"
    /\ UNCHANGED <<inp, file, expr, tree, block, text, again, targets, idx,
                   paren, stack>>

\* the exception leaves the innermost frame; out of the last one it is
\* the outcome of the outermost call
UnwindStep ==
    /\ pc = "raising"
    /\ stack # <<>>
    /\ stack' = SubSeq(stack, 1, Len(stack) - 1)
    /\ IF Len(stack) = 1
       THEN /\ tree' = ret
            /\ pc' = "done"
       ELSE /\ tree' = tree
            /\ pc' = pc
    /\ UNCHANGED <<inp, file, expr, block, text, again, targets, idx, paren,
                   ret>>

NextStep ==
    \/ CallStep
    \/ AddMatchStep
    \/ MulMatchStep
    \/ ParenMatchStep
    \/ ConstantMatchStep
    \/ ReturnStep
    \/ RaiseStep
    \/ UnwindStep

SpecStep == InitStep /\ [][NextStep]_vars

\* one thread runs the calls: a step that can be taken is taken
FairSpecStep == SpecStep /\ WF_vars(NextStep)

-----------------------------------------------------------------------------
(* What the claims speak of: well-formed expressions, their value under    *)
(* the standard reading, the value of a tree, naked positions.             *)

OpChars == {"+", "*"}

NumChars == Digits \cup {"."}

\* Depth[i]: the '(' minus the ')' among the first i characters
RECURSIVE DepthAfter(_, _)
DepthAfter(e, i) ==
    IF i = 0 THEN 0
    ELSE DepthAfter(e, i - 1)
         + (IF e[i] = "(" THEN 1 ELSE IF e[i] = ")" THEN -1 ELSE 0)

Balanced(e) ==
    /\ \A i \in 1..Len(e) : DepthAfter(e, i) >= 0
    /\ DepthAfter(e, Len(e)) = 0

\* the maximal runs of numeral characters, as <<first, last>> positions
NumeralRuns(e) ==
    {<<a, b>> \in (1..Len(e)) \X (1..Len(e)) :
        /\ a <= b
        /\ \A i \in a..b : e[i] \in NumChars
        /\ a = 1 \/ e[a - 1] \notin NumChars
        /\ b = Len(e) \/ e[b + 1] \notin NumChars}

\* may character d follow character c
MayFollow(c, d) ==
    IF c \in NumChars THEN d \in NumChars \cup OpChars \cup {")"}
    ELSE IF c \in OpChars \cup {"("} THEN d \in NumChars \cup {"("}
    ELSE d \in OpChars \cup {")"}

\* non-empty, over the expression alphabet, balanced, every operand of
\* every operator and every parenthesis pair non-empty, every numeral a
\* numeral
WellFormed(e) ==
    /\ Len(e) > 0
    /\ \A i \in 1..Len(e) : e[i] \in NumChars \cup OpChars \cup {"(", ")"}
    /\ e[1] \in NumChars \cup {"("}
    /\ e[Len(e)] \in NumChars \cup {")"}
    /\ \A i \in 1..(Len(e) - 1) : MayFollow(e[i], e[i + 1])
    /\ Balanced(e)
    /\ \A r \in NumeralRuns(e) : IsNumeral(SubSeq(e, r[1], r[2]))

\* positions of character c at parenthesis depth 0
NakedAt(e, c) == {i \in 1..Len(e) : e[i] = c /\ DepthAfter(e, i) = 0}

SetMin(S) == CHOOSE x \in S : \A y \in S : x <= y

SetMax(S) == CHOOSE x \in S : \A y \in S : x >= y

VAdd(a, b) ==
    LET k == IF a[2] > b[2] THEN a[2] ELSE b[2]
    IN  Norm(a[1] * Pow10(k - a[2]) + b[1] * Pow10(k - b[2]), k)

VMul(a, b) == Norm(a[1] * b[1], a[2] + b[2])

\* the value of a well-formed expression: '*' binds tighter than '+',
\* operators of one kind group from the left
RECURSIVE RefEval(_)
RefEval(e) ==
    LET plus == NakedAt(e, "+")
        times == NakedAt(e, "*")
    IN  IF plus # {}
        THEN LET i == SetMax(plus)
             IN  VAdd(RefEval(SubSeq(e, 1, i - 1)),
                      RefEval(SubSeq(e, i + 1, Len(e))))
        ELSE IF times # {}
        THEN LET i == SetMax(times)
             IN  VMul(RefEval(SubSeq(e, 1, i - 1)),
                      RefEval(SubSeq(e, i + 1, Len(e))))
        ELSE IF e[1] = "(" THEN RefEval(SubSeq(e, 2, Len(e) - 1))
        ELSE NumeralValue(e)

\* Constant = its value, Add = sum of children, Mul = product of children
RECURSIVE Eval(_)
Eval(op) ==
    IF op.kind = "Constant" THEN op.val
    ELSE IF op.kind = "Add" THEN VAdd(Eval(op.l_op), Eval(op.r_op))
    ELSE VMul(Eval(op.l_op), Eval(op.r_op))

\* has compiler.py's parse_expr run on the input
RanCompiler == file = "compiler.py" /\ pc \in {"compiled", "raised"}

\* has parser.py's parse_expr run on the input
RanParser == file = "parser.py" /\ pc \in {"parsed", "raised"}

-----------------------------------------------------------------------------
-----------------------------------------------------------------------------
SplitAt(e, i, kind) ==
    [kind |-> kind,
     l_op |-> parse_expr("compiler.py", SubSeq(e, 1, i - 1)),
     r_op |-> parse_expr("compiler.py", SubSeq(e, i + 1, Len(e)))]

Lit(n) == Constant(<<n, 0>>)

\* C2: in compiler.py, whenever parse_expr succeeds, the root is fixed by
\* the first naked operator in priority order: Add split at the first '+'
\* at depth 0 if there is one, otherwise Mul split at the first '*' at
\* depth 0 if there is one; '1+2*3' gives Add(1, Mul(2, 3)) and '1+2+3'
\* gives Add(1, Add(2, 3)).
C2_RootIsFirstNakedOperator ==
    (RanCompiler /\ IsOp(tree)) =>
        LET plus == NakedAt(expr, "+")
            times == NakedAt(expr, "*")
        IN  /\ plus # {} => tree = SplitAt(expr, SetMin(plus), "Add")
            /\ (plus = {} /\ times # {}) =>
                   tree = SplitAt(expr, SetMin(times), "Mul")
            /\ expr = <<"1", "+", "2", "*", "3">> =>
                   tree = Add(Lit(1), Mul(Lit(2), Lit(3)))
            /\ expr = <<"1", "+", "2", "+", "3">> =>
                   tree = Add(Lit(1), Add(Lit(2), Lit(3)))

C2_Witness ==
    /\ RanCompiler
    /\ expr = <<"1", "+", "2", "+", "3">>
    /\ tree = Add(Lit(1), Add(Lit(2), Lit(3)))

-----------------------------------------------------------------------------
CountChar(e, c) == Cardinality({i \in 1..Len(e) : e[i] = c})

RECURSIVE Nodes(_, _)
Nodes(op, kind) ==
    (IF op.kind = kind THEN 1 ELSE 0)
    + (IF op.kind = "Constant" THEN 0
       ELSE Nodes(op.l_op, kind) + Nodes(op.r_op, kind))

\* the values of the leaves, left to right
RECURSIVE Leaves(_)
Leaves(op) ==
    IF op.kind = "Constant" THEN <<op.val>>
    ELSE Leaves(op.l_op) \o Leaves(op.r_op)

\* the values of the numerals of a well-formed expression, left to right
RECURSIVE NumeralsFrom(_, _)
NumeralsFrom(e, i) ==
    IF i > Len(e) THEN <<>>
    ELSE IF e[i] \notin NumChars THEN NumeralsFrom(e, i + 1)
    ELSE LET j == SetMin({b \in i..Len(e) :
                             b = Len(e) \/ e[b + 1] \notin NumChars})
         IN  <<NumeralValue(SubSeq(e, i, j))>> \o NumeralsFrom(e, j + 1)

\* C3: parse_expr of either file returns a tree only for a well-formed
\* string: balanced, every operand non-empty, and every character is one
\* leaf literal's, one operator node's, or a stripped parenthesis.
C3_OnlyWellFormedAccepted ==
    ((RanCompiler \/ RanParser) /\ IsOp(tree)) =>
        /\ WellFormed(expr)
        /\ Nodes(tree, "Add") = CountChar(expr, "+")
        /\ Nodes(tree, "Mul") = CountChar(expr, "*")
        /\ Leaves(tree) = NumeralsFrom(expr, 1)
        /\ expr # <<"(", "1", "+", "2">>

C3_Witness ==
    /\ RanParser
    /\ IsOp(tree)
    /\ expr = <<"(", "1", "+", "2", ")", "*", "3">>

C3_WitnessRejected ==
    /\ RanCompiler
    /\ expr = <<"(", "1", "+", "2">>
    /\ IsRaise(tree)

-----------------------------------------------------------------------------
\* C4: every failure of compiler.py's parse_expr is the parse error
\* parse_expr itself raises, ValueError 'Could not parse expr: "..."'; '1+'
\* fails with it on the empty right-hand substring.
C4_SingleErrorKind ==
    (RanCompiler /\ IsRaise(tree) /\ Len(expr) > 0) =>
        /\ tree.exc = "ValueError"
        /\ expr = <<"1", "+">> => tree = ValueError(<<>>)

-----------------------------------------------------------------------------
\* the first character is '(' and its partner is the last character
Partners(e) ==
    /\ Len(e) >= 2
    /\ e[1] = "("
    /\ e[Len(e)] = ")"
    /\ \A i \in 1..(Len(e) - 1) : DepthAfter(e, i) >= 1
    /\ DepthAfter(e, Len(e)) = 0

\* C5: parser.py's parse_expr returns the result of the first matcher that
\* succeeds in the order Add, Mul, Paren, Constant, whatever the matchers
\* after it do; a well-formed expression whose first '(' and last ')' are
\* not partners comes back as the Add/Mul tree split at the naked
\* operator.
C5_FirstMatcherWins ==
    RanParser =>
        LET add_op == Add_match("parser.py", expr)
            mul_op == Mul_match("parser.py", expr)
        IN  /\ IsOp(add_op) => tree = add_op
            /\ (add_op = None /\ IsOp(mul_op)) => tree = mul_op
            /\ (/\ WellFormed(expr)
                /\ expr[1] = "("
                /\ expr[Len(expr)] = ")"
                /\ ~Partners(expr)) => tree.kind \in {"Add", "Mul"}

-----------------------------------------------------------------------------
\* the instructions a value rests on
RECURSIVE Under(_, _)
Under(blk, v) ==
    IF v.kind = "const" THEN {}
    ELSE {v.at} \cup Under(blk, blk[v.at].lhs) \cup Under(blk, blk[v.at].rhs)

\* the tree a value computes
RECURSIVE Decompile(_, _)
Decompile(blk, v) ==
    IF v.kind = "const" THEN Constant(v.val)
    ELSE [kind |-> IF blk[v.at].opname = "fadd" THEN "Add" ELSE "Mul",
          l_op |-> Decompile(blk, blk[v.at].lhs),
          r_op |-> Decompile(blk, blk[v.at].rhs)]

RefersBefore(v, i) == v.kind = "instr" => v.at < i

CountInstr(blk, opname) ==
    Cardinality({i \in 1..Len(blk) : blk[i].opname = opname})

\* C6: codegen emits in post-order, left before right: one fadd per Add
\* node and one fmul per Mul node, each after every instruction of its
\* operands, every instruction of the left operand before every
\* instruction of the right one, its arguments the left and the right
\* value in that order.
C6_PostOrderLeftBeforeRight ==
    pc = "compiled" =>
        LET n == Len(block)
        IN  /\ n >= 1
            /\ block[n].opname = "ret"
            /\ \A i \in 1..(n - 1) :
                   /\ block[i].opname \in {"fadd", "fmul"}
                   /\ RefersBefore(block[i].lhs, i)
                   /\ RefersBefore(block[i].rhs, i)
            /\ RefersBefore(block[n].lhs, n)
            /\ CountInstr(block, "fadd") = Nodes(tree, "Add")
            /\ CountInstr(block, "fmul") = Nodes(tree, "Mul")
            /\ Decompile(block, block[n].lhs) = tree
            /\ \A i \in 1..(n - 1) :
                   \A a \in Under(block, block[i].lhs) :
                       \A b \in Under(block, block[i].rhs) : a < b

C6_Witness ==
    /\ pc = "compiled"
    /\ tree.kind = "Mul"
    /\ tree.l_op.kind = "Add"
    /\ tree.r_op.kind = "Add"
    /\ Len(block) = 4

-----------------------------------------------------------------------------
\* C7 as stated: parsing the pretty-printed form of a tree parsed from a
\* well-formed expression gives a tree equal to it.
C7_RoundTrip ==
    (pc = "reparsed" /\ WellFormed(expr)) => again = tree

\* C7 as it holds: the round trip gives back the tree when the tree is a
\* single Constant; the printed form of a tree with an Add or Mul node,
\* 'Add(..., ...)' or 'Mul(..., ...)', is no expression, and parse_expr
\* fails on it with the parse error naming it.
C7_RoundTripConstantOnly ==
    (pc = "reparsed" /\ WellFormed(expr)) =>
        IF tree.kind = "Constant" THEN again = tree
        ELSE again = ValueError(text)

C7_Witness ==
    /\ pc = "reparsed"
    /\ expr = <<"1", ".", "1">>
    /\ text = <<"1", ".", "1">>
    /\ again = Constant(<<11, 1>>)

C7_WitnessTree ==
    /\ pc = "reparsed"
    /\ expr = <<"1", "+", "2", "*", "3">>
    /\ IsRaise(again)

-----------------------------------------------------------------------------
\* C8: compiler.py's Paren.match on a non-empty string parses the interior
\* exactly when the first character is '(', the last is ')' and the two
\* are partners; otherwise it returns None and raises nothing.
C8_ParenOnlyForPartners ==
    (pc = "paren" /\ file = "compiler.py" /\ Len(expr) > 0) =>
        IF Partners(expr)
        THEN paren = parse_expr("compiler.py", SubSeq(expr, 2, Len(expr) - 1))
        ELSE paren = None

C8_Witness ==
    /\ pc = "paren"
    /\ file = "compiler.py"
    /\ expr = <<"(", "1", ")", "+", "(", "1", ")">>
    /\ paren = None

-----------------------------------------------------------------------------
\* the '(' among the first i characters that no ')' among them closes
RECURSIVE OpenAfter(_, _)
OpenAfter(e, i) ==
    IF i = 0 THEN 0
    ELSE LET d == OpenAfter(e, i - 1)
         IN  IF e[i] = "(" THEN d + 1
             ELSE IF e[i] = ")" /\ d > 0 THEN d - 1
             ELSE d

Outside(e, tgts) == {i \in 1..Len(e) : e[i] \in tgts /\ OpenAfter(e, i) = 0}

\* C9: on every string, balanced or not, naked_symbol_search returns the
\* first index of a target that no unmatched '(' to its left encloses,
\* and -1 exactly when there is no such target.
C9_FirstTargetOutsideParens ==
    pc = "searched" =>
        IF Outside(expr, targets) = {} THEN idx = -1
        ELSE idx = SetMin(Outside(expr, targets)) - 1

-----------------------------------------------------------------------------
CallsShrink ==
    \A i \in 2..Len(stack) : Len(stack[i].expr) < Len(stack[i - 1].expr)

Done == pc = "done" /\ stack = <<>> /\ (IsOp(tree) \/ IsRaise(tree))

\* C10: parse_expr terminates: every recursive call is on a string
\* strictly shorter than its caller's, and the outermost call comes to
\* return a tree or fail with an error, each matcher being called twice.
C10_Terminates == []CallsShrink /\ <>Done

\* a recursive call made by the second call of Add.match
C10_Witness ==
    /\ pc = "running"
    /\ Len(stack) = 3
    /\ stack[1].at = "or_add"
    /\ stack[1].sub = "right"
    /\ stack[2].at = "or_mul"

\* the outcome of the calls is the outcome of parse_expr
StepwiseIsParse == pc = "done" => tree = parse_expr(file, expr)

=============================================================================
